---------------------------- MODULE Spec2Model ----------------------------
(***************************************************************************)
(* A model of the statistics-meme image pipeline:                          *)
(*   step5_create_masked.py      create_masked_stipple                     *)
(*   create_meme.py              _prepare_image, create_statistics_meme    *)
(*   step4_create_block_letter.py  _get_font, create_block_letter_s        *)
(*                                                                         *)
(* Numbers.  A real value v is the integer v * One, so raw inputs live on  *)
(* a grid of quarters.  Single precision keeps one binary digit less than  *)
(* the raw inputs carry: the float32 values are the even integers, and     *)
(* astype(np.float32) rounds to the nearest of them, ties to even.  The    *)
(* grid is a scaled-down float32: an odd integer stands for a double that  *)
(* float32 does not hold (1.0 + 1e-12, say), an even one for itself.       *)
(* Infinities and NaN are not modelled.                                    *)
(***************************************************************************)
EXTENDS Integers, Sequences, FiniteSets, TLC

\* 1.0, the white level (the upper clamp bound of np.clip)
One == 4

\* Largest number of pixels of an input image
MaxPixels == 2

\* Largest number of elements of a raw image offered to _prepare_image
MaxElems == 4

\* Largest height and width of an image offered to create_statistics_meme
\* and of a block-letter canvas
MaxSide == 3

\* Raw pixel values offered to the operations: one below the range (-0.5),
\* the range [0, 1] in quarters, one above it (1.5).  The odd ones (0.25,
\* 0.75) are not float32 values.
RawValues == {0 - 2, 0, 1, 2, 3, One, One + 2}

\* Thresholds tau in [0, 1]
Thresholds == 0 .. One

VARIABLES
    pc,           \* position in the operation under way
    result,       \* the array returned
    error,        \* the exception raised, or "none"
    \* create_masked_stipple
    stipple_img,  \* argument: the continuous image
    mask_img,     \* argument: the mask image
    threshold,    \* argument: tau
    stipple,      \* local: the continuous image, float32 and clamped
    mask,         \* local: the mask image, float32 and clamped
    mask_region,  \* local: where the mask is below the threshold
    \* _prepare_image
    img,          \* argument: the raw image
    arr,          \* local: the 2-D array being normalized
    arr_min,      \* local
    arr_max,      \* local
    \* create_statistics_meme
    meme_in,      \* arguments: original_img, stipple_img, block_letter_img, masked_stipple_img
    prepared,     \* locals: orig, stip, mask_letter, masked
    h_min,        \* local
    w_min,        \* local
    cropped,      \* locals: orig_c, stip_c, letter_c, masked_c
    panels,       \* the images handed to ax.imshow, in panel order
    \* create_block_letter_s and _get_font
    height,       \* argument
    width,        \* argument
    letter,       \* argument: a string, as the sequence of its characters
    font_size_ratio,  \* argument, in tenths
    letter_img,   \* local img: the PIL canvas
    base_size,    \* local
    loads,        \* the font candidates whose load succeeds in this call
    tried,        \* the candidates _get_font has attempted, in order
    font,         \* the font _get_font returned
    text,         \* local
    text_size,    \* local: (text_width, text_height)
    pillow        \* the Pillow installed: what its ImageDraw and default font offer

maskedVars == <<stipple_img, mask_img, threshold, stipple, mask, mask_region>>
prepareVars == <<img, arr, arr_min, arr_max>>
memeVars == <<meme_in, prepared, h_min, w_min, cropped, panels>>
letterVars == <<height, width, letter, font_size_ratio, letter_img, base_size,
                loads, tried, font, text, text_size, pillow>>

vars == <<pc, result, error, maskedVars, prepareVars, memeVars, letterVars>>

-----------------------------------------------------------------------------
(* Arrays: a 2-D array is its shape (h, w) and its pixels in row-major order *)

Shapes == {s \in (1 .. MaxPixels) \X (1 .. MaxPixels) : s[1] * s[2] <= MaxPixels}

Array(h, w, px) == [h |-> h, w |-> w, px |-> px]

\* a is an array of one of the shapes with pixel values in V
IsArray(a, V) ==
    \E s \in Shapes : \E p \in [1 .. s[1] * s[2] -> V] : a = Array(s[1], s[2], p)

\* A raw image: ndim axes, shape (w,), (h, w) or (h, w, c), elements in row-major
\* order with the channel axis last
Raw(ndim, h, w, c, px) == [ndim |-> ndim, h |-> h, w |-> w, c |-> c, px |-> px]

NoRaw == Raw(0, 0, 0, 0, <<>>)

\* The shapes <<ndim, h, w, c>> of the raw images of rank 1, 2 and 3, and a
\* being one of them with elements in V
RawShapes ==
    {s \in (1 .. 3) \X (1 .. MaxElems) \X (1 .. MaxElems) \X (1 .. MaxElems) :
        /\ s[2] * s[3] * s[4] <= MaxElems
        /\ s[1] < 3 => s[4] = 1
        /\ s[1] < 2 => s[2] = 1}

IsRaw(a, V) ==
    \E s \in RawShapes :
        \E p \in [1 .. s[2] * s[3] * s[4] -> V] : a = Raw(s[1], s[2], s[3], s[4], p)

\* No array: a local not yet assigned, or no value returned
NoArray == Array(0, 0, <<>>)

\* A PIL image of mode "L": its size (width, height) and its 8-bit pixels in
\* row-major order
Image(size, px) == [size |-> size, px |-> px]

NoImage == Image(<<0, 0>>, <<>>)

\* No Pillow in use
NoPillow == [textbbox |-> FALSE, default_truetype |-> FALSE]

\* ndarray.shape
shape(a) == <<a.h, a.w>>

-----------------------------------------------------------------------------
(* Single precision *)

\* n / d (d > 0) rounded to the nearest integer, ties to the even one
RoundQ(n, d) ==
    LET q == n \div d
        r == n % d
    IN  IF 2 * r < d THEN q
        ELSE IF 2 * r > d THEN q + 1
        ELSE IF q % 2 = 0 THEN q ELSE q + 1

\* The float32 nearest to the real n / d: an even integer, ties to even
F32Q(n, d) == 2 * RoundQ(n, 2 * d)

\* astype(np.float32) of one value
F32(x) == F32Q(x, 1)

\* The values float32 holds exactly
IsF32(x) == x % 2 = 0

\* np.clip(x, 0.0, 1.0) of one value
Clip01(x) == IF x < 0 THEN 0 ELSE IF x > One THEN One ELSE x

-----------------------------------------------------------------------------
(* The variables of the operations that are not running *)

IdlePrepare ==
    /\ img = NoRaw
    /\ arr = NoArray
    /\ arr_min = 0
    /\ arr_max = 0

IdleMeme ==
    /\ meme_in = <<>>
    /\ prepared = <<>>
    /\ h_min = 0
    /\ w_min = 0
    /\ cropped = <<>>
    /\ panels = <<>>

IdleLetter ==
    /\ height = 0
    /\ width = 0
    /\ letter = <<>>
    /\ font_size_ratio = 0
    /\ letter_img = NoImage
    /\ base_size = 0
    /\ loads = {}
    /\ tried = <<>>
    /\ font = "none"
    /\ text = ""
    /\ text_size = <<0, 0>>
    /\ pillow = NoPillow

IdleMasked ==
    /\ stipple_img = NoArray
    /\ mask_img = NoArray
    /\ threshold = 0
    /\ stipple = NoArray
    /\ mask = NoArray
    /\ mask_region = NoArray

-----------------------------------------------------------------------------
(* step5_create_masked.py: create_masked_stipple *)

\* line 33: stipple_img.shape != mask_img.shape
SameSize(a, b) == a.h * a.w = b.h * b.w
SameShape(a, b) == shape(a) = shape(b)

\* lines 40, 41: np.clip(x.astype(np.float32), 0.0, 1.0)
ClampedF32(a) == Array(a.h, a.w, [i \in DOMAIN a.px |-> Clip01(F32(a.px[i]))])

\* line 44: mask < threshold; the Python float is compared in float32
BelowOrEqual(m, tau) == Array(m.h, m.w, [i \in DOMAIN m.px |-> m.px[i] <= F32(tau)])
Below(m, tau) == Array(m.h, m.w, [i \in DOMAIN m.px |-> m.px[i] < F32(tau)])

\* line 47: np.where(mask_region, 1.0, stipple)
WhereBlack(region, s) ==
    Array(s.h, s.w, [i \in DOMAIN s.px |-> IF region.px[i] THEN 0 ELSE s.px[i]])
WhereInverted(region, s) ==
    Array(s.h, s.w, [i \in DOMAIN s.px |-> IF region.px[i] THEN One ELSE One - s.px[i]])
Where(region, s) ==
    Array(s.h, s.w, [i \in DOMAIN s.px |-> IF region.px[i] THEN One ELSE s.px[i]])

\* lines 39-49 as a function of arguments of one shape
create_masked_stipple(s, m, tau) == Where(Below(ClampedF32(m), tau), ClampedF32(s))

InitMasked ==
    /\ pc = "check"
    /\ IsArray(stipple_img, RawValues)
    /\ IsArray(mask_img, RawValues)
    /\ threshold \in Thresholds
    /\ stipple = NoArray
    /\ mask = NoArray
    /\ mask_region = NoArray
    /\ result = NoArray
    /\ error = "none"
    /\ IdlePrepare /\ IdleMeme /\ IdleLetter

\* lines 33-37: the shape check
ShapeCheck ==
    /\ pc = "check"
    /\ IF ~SameShape(stipple_img, mask_img)
       THEN pc' = "raised" /\ error' = "ValueError"
       ELSE pc' = "clamp" /\ error' = error
    /\ UNCHANGED <<result, maskedVars, prepareVars, memeVars, letterVars>>

\* lines 40-41
Clamp ==
    /\ pc = "clamp"
    /\ stipple' = ClampedF32(stipple_img)
    /\ mask' = ClampedF32(mask_img)
    /\ pc' = "where"
    /\ UNCHANGED <<stipple_img, mask_img, threshold, mask_region>>
    /\ UNCHANGED <<result, error, prepareVars, memeVars, letterVars>>

\* lines 44-49
Select ==
    /\ pc = "where"
    /\ mask_region' = Below(mask, threshold)
    /\ result' = Where(mask_region', stipple)
    /\ pc' = "returned"
    /\ UNCHANGED <<stipple_img, mask_img, threshold, stipple, mask>>
    /\ UNCHANGED <<error, prepareVars, memeVars, letterVars>>

NextMasked == ShapeCheck \/ Clamp \/ Select

SpecMasked == InitMasked /\ [][NextMasked]_vars

\* The positions of create_masked_stipple past the shape check
PastShapeCheck == {"clamp", "where", "returned"}

(* C1 as stated: every pixel whose mask value is below tau has output exactly
   1.0, whatever the continuous image holds there.  It is stated of the mask
   values and thresholds that are float32 values already, where no rounding
   comes into it. *)
C1_AsStated ==
    pc = "returned" =>
        \A i \in DOMAIN result.px :
            (IsF32(mask_img.px[i]) /\ IsF32(threshold) /\ mask_img.px[i] < threshold)
                => result.px[i] = One

(* C1: every pixel whose mask value, converted to float32 and clamped into
   [0, 1], is below the threshold as float32 has output exactly 1.0, whatever
   the continuous image holds there. *)
C1_MaskedRegionIsWhite ==
    pc = "returned" =>
        \A i \in DOMAIN result.px :
            Clip01(F32(mask_img.px[i])) < F32(threshold) => result.px[i] = One

\* A dark or out-of-range continuous pixel under the mask came out white
C1_Witness ==
    /\ pc = "returned"
    /\ \E i \in DOMAIN result.px :
        /\ Clip01(F32(mask_img.px[i])) < F32(threshold)
        /\ stipple_img.px[i] < One
        /\ result.px[i] = One
    /\ \E i \in DOMAIN result.px : mask_img.px[i] < 0 /\ result.px[i] = One

(* C2 as stated: every pixel whose mask value is at least tau has output equal
   to the continuous image's original value, unchanged.  It is stated of the
   continuous values that are float32 values already, where no rounding comes
   into it. *)
C2_AsStated ==
    pc = "returned" =>
        \A i \in DOMAIN result.px :
            (IsF32(stipple_img.px[i]) /\ mask_img.px[i] >= threshold)
                => result.px[i] = stipple_img.px[i]

(* C2: the output has the shape of the inputs, and every pixel whose mask
   value is at least tau has output equal to the continuous image's value
   converted to float32 and clamped into [0, 1]: the original value itself
   when that is a float32 value in [0, 1]. *)
C2_PassThroughIsClamped ==
    pc = "returned" =>
        /\ shape(result) = shape(stipple_img)
        /\ \A i \in DOMAIN stipple_img.px :
            mask_img.px[i] >= threshold =>
                /\ result.px[i] = Clip01(F32(stipple_img.px[i]))
                /\ (IsF32(stipple_img.px[i]) /\ stipple_img.px[i] \in 0 .. One
                        => result.px[i] = stipple_img.px[i])

\* A pass-through pixel kept its in-range value beside one that was clamped
C2_Witness ==
    /\ pc = "returned"
    /\ \E i, j \in DOMAIN result.px :
        /\ mask_img.px[i] >= threshold /\ mask_img.px[j] >= threshold
        /\ stipple_img.px[i] = 2 /\ result.px[i] = 2
        /\ stipple_img.px[j] > One /\ result.px[j] = One

(* C6: the call raises exactly when the two shapes differ; the error is raised
   at the shape check, before anything is clamped or thresholded and with no
   array returned; with equal shapes no error is raised; and the call never
   changes either argument. *)
C6_ShapeMismatch ==
    /\ [](/\ pc = "raised" <=> error = "ValueError"
          /\ pc = "raised" => shape(stipple_img) # shape(mask_img)
          /\ shape(stipple_img) # shape(mask_img) => pc \in {"check", "raised"}
          /\ pc = "raised" =>
                stipple = NoArray /\ mask = NoArray /\ mask_region = NoArray
                    /\ result = NoArray
          /\ pc \in PastShapeCheck => error = "none")
    /\ [][stipple_img' = stipple_img /\ mask_img' = mask_img]_vars

\* The call on a (1, 2) image and a (2, 1) mask has raised
C6_Witness ==
    /\ pc = "raised"
    /\ error = "ValueError"
    /\ shape(stipple_img) = <<1, 2>>
    /\ shape(mask_img) = <<2, 1>>

(* C7: masking the result again with the same mask and threshold gives the
   result back, pixel for pixel. *)
C7_Idempotent ==
    pc = "returned" => create_masked_stipple(result, mask_img, threshold) = result

\* A result with a masked pixel and a pass-through pixel that is not white
C7_Witness ==
    /\ pc = "returned"
    /\ \E i, j \in DOMAIN result.px :
        /\ mask_region.px[i]
        /\ ~mask_region.px[j]
        /\ result.px[j] < One
        /\ stipple_img.px[j] # result.px[j]

-----------------------------------------------------------------------------
(* create_meme.py: _prepare_image *)

Min(S) == CHOOSE x \in S : \A y \in S : x <= y
Max(S) == CHOOSE x \in S : \A y \in S : x >= y
Range(f) == {f[i] : i \in DOMAIN f}

\* The sum of the c channels of pixel k
RECURSIVE ChannelSum(_, _, _)
ChannelSum(a, k, j) ==
    IF j = 0 THEN 0 ELSE a.px[(k - 1) * a.c + j] + ChannelSum(a, k, j - 1)

\* lines 13-15: arr.mean(axis=2) of a rank-3 array, each mean the exact
\* rational <<sum, c>>; an array of another rank is left as it is
ChannelMean(a) ==
    IF a.ndim = 3
    THEN Raw(2, a.h, a.w, 1, [k \in 1 .. a.h * a.w |-> <<ChannelSum(a, k, a.c), a.c>>])
    ELSE Raw(a.ndim, a.h, a.w, 1, [k \in DOMAIN a.px |-> <<a.px[k], 1>>])

\* line 22: arr.astype(np.float32) of the rank-2 array
AsFloat32(a) == Array(a.h, a.w, [k \in DOMAIN a.px |-> F32Q(a.px[k][1], a.px[k][2])])

\* line 29: np.zeros_like(arr)
LeftAsIs(a) == a
zeros_like(a) == Array(a.h, a.w, [i \in DOMAIN a.px |-> 0])

\* line 27: (arr - arr_min) / (arr_max - arr_min), in float32
RescaleNoShift(a, lo, hi) == Array(a.h, a.w, [i \in DOMAIN a.px |-> F32Q(a.px[i] * One, hi - lo)])
Rescale(a, lo, hi) == Array(a.h, a.w, [i \in DOMAIN a.px |-> F32Q((a.px[i] - lo) * One, hi - lo)])

\* lines 24-31
Normalize(a) ==
    LET lo == Min(Range(a.px))
        hi == Max(Range(a.px))
    IN  IF hi > lo THEN Rescale(a, lo, hi) ELSE zeros_like(a)

\* _prepare_image as a function of a raw image of rank 2 or 3
prepare_image(raw) == Normalize(AsFloat32(ChannelMean(raw)))

InitPrepare ==
    /\ pc = "asarray"
    /\ IsRaw(img, RawValues)
    /\ arr = NoArray
    /\ arr_min = 0
    /\ arr_max = 0
    /\ result = NoArray
    /\ error = "none"
    /\ IdleMasked /\ IdleMeme /\ IdleLetter

\* lines 11-15
Collapse ==
    /\ pc = "asarray"
    /\ arr' = ChannelMean(img)
    /\ pc' = "rank"
    /\ UNCHANGED <<img, arr_min, arr_max, result, error>>
    /\ UNCHANGED <<maskedVars, memeVars, letterVars>>

\* lines 17-20
RankCheck ==
    /\ pc = "rank"
    /\ IF arr.ndim # 2
       THEN pc' = "raised" /\ error' = "ValueError"
       ELSE pc' = "cast" /\ error' = error
    /\ UNCHANGED <<result, prepareVars, maskedVars, memeVars, letterVars>>

\* lines 22-25
CastMinMax ==
    /\ pc = "cast"
    /\ arr' = AsFloat32(arr)
    /\ arr_min' = Min(Range(arr'.px))
    /\ arr_max' = Max(Range(arr'.px))
    /\ pc' = "normalize"
    /\ UNCHANGED <<img, result, error, maskedVars, memeVars, letterVars>>

\* lines 26-31
NormalizeStep ==
    /\ pc = "normalize"
    /\ IF arr_max > arr_min
       THEN arr' = Rescale(arr, arr_min, arr_max)
       ELSE arr' = zeros_like(arr)
    /\ result' = arr'
    /\ pc' = "returned"
    /\ UNCHANGED <<img, arr_min, arr_max, error, maskedVars, memeVars, letterVars>>

NextPrepare == Collapse \/ RankCheck \/ CastMinMax \/ NormalizeStep

SpecPrepare == InitPrepare /\ [][NextPrepare]_vars

\* The pixels of the raw image (after the channels are averaged)
PixelsOf(raw) == 1 .. raw.h * raw.w

\* c times the channel average of pixel k: the averages compare as these do
AverageTimesC(raw, k) == ChannelSum(raw, k, raw.c)

\* The channel average of pixel k as float32
Average32(raw, k) == F32Q(ChannelSum(raw, k, raw.c), raw.c)

Lowest32(raw) == Min({Average32(raw, k) : k \in PixelsOf(raw)})
Highest32(raw) == Max({Average32(raw, k) : k \in PixelsOf(raw)})

\* out is a float32 within half a float32 step of the real n / d
NearestF32(out, n, d) ==
    /\ IsF32(out)
    /\ out * d - n * One <= d
    /\ n * One - out * d <= d

\* What C4 promises of the output for the raw image
NormalizedOutput(raw, out) ==
    /\ shape(out) = <<raw.h, raw.w>>
    /\ \A k \in PixelsOf(raw) : 0 <= out.px[k] /\ out.px[k] <= One
    /\ Min(Range(out.px)) = 0
    /\ Max(Range(out.px)) = One
    /\ Highest32(raw) > Lowest32(raw) =>
        \A k \in PixelsOf(raw) :
            NearestF32(out.px[k], Average32(raw, k) - Lowest32(raw),
                       Highest32(raw) - Lowest32(raw))

(* C4 as stated: for every raw image of rank 2 or 3 whose (channel-averaged)
   maximum is greater than its minimum, the output has the input's height and
   width, every value is (value - min)/(max - min) and lies in [0, 1], the
   minimum is exactly 0.0 and the maximum exactly 1.0. *)
C4_AsStated ==
    (/\ pc = "returned"
     /\ \E j, k \in PixelsOf(img) : AverageTimesC(img, j) < AverageTimesC(img, k))
        => NormalizedOutput(img, result)

(* C4: for every raw image of rank 2 or 3 whose (channel-averaged) maximum is
   greater than its minimum once converted to float32, the output has the
   input's height and width, every value is the float32 quotient
   (value - min)/(max - min) of the float32 values and lies in [0, 1], the
   minimum is exactly 0.0 and the maximum exactly 1.0. *)
C4_NormalizedNonConstant ==
    (pc = "returned" /\ Highest32(img) > Lowest32(img))
        => NormalizedOutput(img, result)

\* A rank-2 image whose output holds 0, 1 and a value strictly between that
\* is not the input's own
C4_Witness ==
    /\ pc = "returned"
    /\ Highest32(img) > Lowest32(img)
    /\ img.ndim = 2
    /\ \E k \in PixelsOf(img) : result.px[k] = 2 /\ img.px[k] # 2
    /\ Min(Range(result.px)) = 0
    /\ Max(Range(result.px)) = One

(* C5: for every raw image of rank 2 or 3 whose (channel-averaged) pixel
   values are all equal, a single pixel included, the call raises nothing and
   returns all zeros with the input's height and width, whatever the constant
   is. *)
C5_ConstantIsZeros ==
    /\ img.ndim \in {2, 3} => pc # "raised" /\ error = "none"
    /\ (/\ pc = "returned"
        /\ \A j, k \in PixelsOf(img) : AverageTimesC(img, j) = AverageTimesC(img, k))
            => /\ shape(result) = <<img.h, img.w>>
               /\ \A k \in PixelsOf(img) : result.px[k] = 0

\* A rank-3 image of two white pixels, one of them with unequal channels
C5_Witness ==
    /\ pc = "returned"
    /\ img.ndim = 3
    /\ img.h * img.w = 2
    /\ img.c = 2
    /\ img.px[1] # img.px[2]
    /\ \A k \in PixelsOf(img) : AverageTimesC(img, k) = One * img.c
    /\ \A k \in PixelsOf(img) : result.px[k] = 0

-----------------------------------------------------------------------------
(* create_meme.py: create_statistics_meme *)

\* Pixel (r, c), counted from 1, of a 2-D array or rank-2 raw image
At(a, r, c) == a.px[(r - 1) * a.w + c]

\* The canonical images offered: every shape up to MaxSide x MaxSide, painted
\* in diagonal bands of three levels: black to white, all white, and levels
\* (0.25, 0.75) that float32 does not hold
Bands == {<<0, 2, One>>, <<One, One, One>>, <<1, 3, One>>}

Banded(h, w, lv) ==
    Raw(2, h, w, 1,
        [k \in 1 .. h * w |-> lv[((((k - 1) \div w) + 2 * ((k - 1) % w)) % 3) + 1]])

CanonicalImages(lv) ==
    {Banded(h, w, lv) : h \in 1 .. MaxSide, w \in 1 .. MaxSide}

\* The Python slice a[from : from + len] of an axis of n entries, from >= 0:
\* the number of entries it keeps
SliceLen(n, from, len) ==
    LET lo == IF from < n THEN from ELSE n
        hi == IF from + len < n THEN from + len ELSE n
    IN  IF hi > lo THEN hi - lo ELSE 0

\* lines 78, 79: max((n - n_min) // 2, 0)
CornerOffset(n, n_min) == 0
CenterOffset(n, n_min) == IF (n - n_min) \div 2 > 0 THEN (n - n_min) \div 2 ELSE 0

\* lines 76-80: center_crop, with the h_min and w_min it closes over
center_crop(a, hm, wm) ==
    LET top == CenterOffset(a.h, hm)
        left == CenterOffset(a.w, wm)
        rows == SliceLen(a.h, top, hm)
        cols == SliceLen(a.w, left, wm)
    IN  Array(rows, cols,
              [k \in 1 .. rows * cols |->
                  At(a, top + ((k - 1) \div cols) + 1, left + (((k - 1) % cols) + 1))])

\* lines 97-100: the panel titles
Titles == <<"Reality", "Your Model", "Selection Bias", "Estimate">>

\* line 104: ax.imshow(img, cmap="gray", vmin=0, vmax=1): what the renderer gets
imshow_autoscaled(title, a) ==
    [title |-> title, img |-> a, vmin |-> Min(Range(a.px)), vmax |-> Max(Range(a.px))]
imshow(title, a) == [title |-> title, img |-> a, vmin |-> 0, vmax |-> One]

InitMeme ==
    /\ pc = "prepare"
    /\ \E lv \in Bands : meme_in \in [1 .. 4 -> CanonicalImages(lv)]
    /\ prepared = <<>>
    /\ h_min = 0
    /\ w_min = 0
    /\ cropped = <<>>
    /\ panels = <<>>
    /\ result = NoArray
    /\ error = "none"
    /\ IdleMasked /\ IdlePrepare /\ IdleLetter

\* lines 63-67
PrepareAll ==
    /\ pc = "prepare"
    /\ prepared' = [k \in 1 .. 4 |-> prepare_image(meme_in[k])]
    /\ pc' = "crop"
    /\ UNCHANGED <<meme_in, h_min, w_min, cropped, panels>>
    /\ UNCHANGED <<result, error, maskedVars, prepareVars, letterVars>>

\* lines 69-85
CropAll ==
    /\ pc = "crop"
    /\ h_min' = Min({prepared[k].h : k \in 1 .. 4})
    /\ w_min' = Min({prepared[k].w : k \in 1 .. 4})
    /\ cropped' = [k \in 1 .. 4 |-> center_crop(prepared[k], h_min', w_min')]
    /\ pc' = "show"
    /\ UNCHANGED <<meme_in, prepared, panels>>
    /\ UNCHANGED <<result, error, maskedVars, prepareVars, letterVars>>

\* lines 87-129: the four panels are drawn and the figure is saved
Render ==
    /\ pc = "show"
    /\ panels' = [k \in 1 .. 4 |-> imshow(Titles[k], cropped[k])]
    /\ pc' = "saved"
    /\ UNCHANGED <<meme_in, prepared, h_min, w_min, cropped>>
    /\ UNCHANGED <<result, error, maskedVars, prepareVars, letterVars>>

NextMeme == PrepareAll \/ CropAll \/ Render

SpecMeme == InitMeme /\ [][NextMeme]_vars

\* The targets and the window of C3, from the shapes of the four images
TargetH == Min({meme_in[k].h : k \in 1 .. 4})
TargetW == Min({meme_in[k].w : k \in 1 .. 4})
WindowTop(k) ==
    IF (meme_in[k].h - TargetH) \div 2 > 0 THEN (meme_in[k].h - TargetH) \div 2 ELSE 0
WindowLeft(k) ==
    IF (meme_in[k].w - TargetW) \div 2 > 0 THEN (meme_in[k].w - TargetW) \div 2 ELSE 0

(* C3: with target_H and target_W the least height and width of the images,
   each image is cropped to the window that starts at
   (max((H - target_H)//2, 0), max((W - target_W)//2, 0)) and has extents
   (target_H, target_W); the window lies inside the image, every output has
   exactly the shape (target_H, target_W), and images that are equal get equal
   outputs wherever they stand in the argument list. *)
C3_CenterCrop ==
    pc \in {"show", "saved"} =>
        /\ \A k \in 1 .. 4 :
            /\ WindowTop(k) + TargetH <= prepared[k].h
            /\ WindowLeft(k) + TargetW <= prepared[k].w
            /\ shape(cropped[k]) = <<TargetH, TargetW>>
            /\ \A r \in 1 .. TargetH, c \in 1 .. TargetW :
                At(cropped[k], r, c) = At(prepared[k], WindowTop(k) + r, WindowLeft(k) + c)
        /\ \A j, k \in 1 .. 4 : prepared[j] = prepared[k] => cropped[j] = cropped[k]

\* A 3 x 3 image cropped to the first two pixels of its middle row beside a
\* 1 x 2 image, and a 2 x 2 image cropped to its first row
C3_Witness ==
    /\ pc = "show"
    /\ prepared[1] = Array(3, 3, <<0, One, 2, 2, 0, One, One, 2, 0>>)
    /\ shape(prepared[2]) = <<1, 2>>
    /\ prepared[3] = Array(2, 2, <<0, One, 2, 0>>)
    /\ cropped[1] = Array(1, 2, <<2, 0>>)
    /\ cropped[3] = Array(1, 2, <<0, One>>)

(* C10 as stated: the panels carry the range [0, 1], and for every input that
   is already canonical every panel pixel equals the input's value at the
   corresponding position of its center-crop window.  It is stated of the
   canonical inputs whose values are float32 values already, where no
   rounding comes into it. *)
C10_AsStated ==
    pc = "saved" =>
        \A k \in 1 .. 4 :
            (\A i \in DOMAIN meme_in[k].px :
                    IsF32(meme_in[k].px[i]) /\ meme_in[k].px[i] \in 0 .. One)
                => /\ panels[k].vmin = 0 /\ panels[k].vmax = One
                   /\ \A r \in 1 .. TargetH, c \in 1 .. TargetW :
                        At(panels[k].img, r, c)
                            = At(meme_in[k], WindowTop(k) + r, WindowLeft(k) + c)

(* C10: the panels carry the range [0, 1] and are the center-crop windows of
   the inputs as _prepare_image normalizes them: a canonical input whose
   float32 minimum is 0 and maximum is 1 reaches the renderer with its own
   (float32) values; any other non-constant input is min-max rescaled first,
   and a constant one becomes all zeros. *)
C10_PanelsAreNormalizedCrops ==
    pc = "saved" =>
        \A k \in 1 .. 4 :
            LET lo == Lowest32(meme_in[k])
                hi == Highest32(meme_in[k])
            IN  /\ panels[k].vmin = 0 /\ panels[k].vmax = One
                /\ panels[k].title = Titles[k]
                /\ shape(panels[k].img) = <<TargetH, TargetW>>
                /\ \A r \in 1 .. TargetH, c \in 1 .. TargetW :
                    LET v == At(meme_in[k], WindowTop(k) + r, WindowLeft(k) + c)
                        p == At(panels[k].img, r, c)
                    IN  /\ lo = 0 /\ hi = One => p = F32(v)
                        /\ hi > lo => NearestF32(p, F32(v) - lo, hi - lo)
                        /\ hi = lo => p = 0

\* Two full-range images shown as they are, cropped to their windows, beside
\* a half-range image that was stretched
C10_Witness ==
    /\ pc = "saved"
    /\ meme_in[1] = Banded(3, 3, <<0, 2, One>>)
    /\ meme_in[2] = Banded(2, 1, <<0, 2, One>>)
    /\ meme_in[3] = Banded(2, 2, <<0, 2, One>>)
    /\ meme_in[4] = Banded(2, 3, <<0, 2, One>>)
    /\ panels[1].img = Array(2, 1, <<One, 0>>)
    /\ panels[2].img = Array(2, 1, <<0, One>>)
    /\ panels[3].img = Array(2, 1, <<0, 2>>)

-----------------------------------------------------------------------------
(* step4_create_block_letter.py: _get_font and create_block_letter_s *)

\* lines 11-20
font_candidates ==
    <<"DejaVuSans-Bold.ttf", "Arial Bold.ttf", "Arialbd.ttf", "Arial.ttf",
      "C:\\Windows\\Fonts\\arialbd.ttf", "C:\\Windows\\Fonts\\arial.ttf">>

\* The letters offered: none, one character, two characters
Letters == {<<>>, <<"S">>, <<"A", "B">>}

\* The size ratios offered, in tenths: -0.5, 0, 0.5, 0.9, 1.0, 2.5
Ratios == {0 - 5, 0, 5, 9, 10, 25}

\* line 63: max(0.1, min(1.0, font_size_ratio)), in tenths
ClampRatio(r) ==
    LET m == IF r < 10 THEN r ELSE 10
    IN  IF m > 1 THEN m ELSE 1

\* line 66: Image.new("L", (width, height), color=255)
ImageNew(w, h, color) == Image(<<w, h>>, [k \in 1 .. w * h |-> color])

\* line 70: int(min(height, width) * font_size_ratio)
BaseSize(h, w, r) == ((IF h < w THEN h ELSE w) * r) \div 10

\* lines 2, 29, 78: the Pillow releases differ in what the code relies on.
\* Before 8.0 ImageDraw has no textbbox (AttributeError, the case line 81
\* catches).  From 8.0 on it has, and textbbox raises ValueError for a font
\* that is not a FreeTypeFont; ImageFont.load_default() returns the bitmap
\* font, until in 10.1 it returns a FreeTypeFont where FreeType is built in.
Pillows ==
    {[textbbox |-> FALSE, default_truetype |-> FALSE],
     [textbbox |-> TRUE, default_truetype |-> FALSE],
     [textbbox |-> TRUE, default_truetype |-> TRUE]}

\* line 78: draw.textbbox((0, 0), text, font=font) raises ValueError
TextbboxRejects(env, f) == env.textbbox /\ f = "default" /\ ~env.default_truetype

\* lines 77-82: the sizes draw.textbbox (or, without it, draw.textsize) may
\* report for one glyph: nothing, the font size, more than the canvas holds
GlyphSizes(size) == {<<0, 0>>, <<size, size>>, <<MaxSide + 1, MaxSide + 1>>}

\* line 89: draw.text((x, y), text, font=font, fill=0) with x = (width - tw)/2
\* and y = (height - th)/2: a pixel the glyph box covers wholly turns black,
\* one it covers partly turns grey, and what falls off the canvas is clipped
DrawText(im, tw, th) ==
    LET w == im.size[1]
        h == im.size[2]
        x2 == w - tw
        y2 == h - th
        Whole(j, o2, len) == o2 <= 2 * j /\ 2 * j + 2 <= o2 + 2 * len
        Partly(j, o2, len) == o2 < 2 * j + 2 /\ 2 * j < o2 + 2 * len
        Ink(k) ==
            LET r == (k - 1) \div w
                c == (k - 1) % w
            IN  IF Whole(c, x2, tw) /\ Whole(r, y2, th) THEN 0
                ELSE IF Partly(c, x2, tw) /\ Partly(r, y2, th) THEN 128
                ELSE im.px[k]
    IN  Image(im.size, [k \in DOMAIN im.px |-> Ink(k)])

\* line 92: np.array(img).astype(np.float32) / 255.0
ToUnitArray(im) ==
    Array(im.size[2], im.size[1], [k \in DOMAIN im.px |-> F32Q(im.px[k] * One, 255)])

InitLetter ==
    /\ pc = "dims"
    /\ height \in (0 - 1) .. MaxSide
    /\ width \in (0 - 1) .. MaxSide
    /\ letter \in Letters
    /\ font_size_ratio \in Ratios
    /\ loads \in SUBSET Range(font_candidates)
    /\ pillow \in Pillows
    /\ letter_img = NoImage
    /\ base_size = 0
    /\ tried = <<>>
    /\ font = "none"
    /\ text = ""
    /\ text_size = <<0, 0>>
    /\ result = NoArray
    /\ error = "none"
    /\ IdleMasked /\ IdlePrepare /\ IdleMeme

\* lines 59-60
CheckDims ==
    /\ pc = "dims"
    /\ IF height <= 0 \/ width <= 0
       THEN pc' = "raised" /\ error' = "ValueError"
       ELSE pc' = "ratio" /\ error' = error
    /\ UNCHANGED <<result, letterVars, maskedVars, prepareVars, memeVars>>

\* lines 63-70
Canvas ==
    /\ pc = "ratio"
    /\ font_size_ratio' = ClampRatio(font_size_ratio)
    /\ letter_img' = ImageNew(width, height, 255)
    /\ base_size' = BaseSize(height, width, font_size_ratio')
    /\ pc' = "get_font"
    /\ UNCHANGED <<height, width, letter, loads, tried, font, text, text_size, pillow>>
    /\ UNCHANGED <<result, error, maskedVars, prepareVars, memeVars>>

\* _get_font, lines 22-26, on a failed load: when the load raises, whatever it
\* raises, the loop moves on
TryFontGiveUp ==
    /\ pc = "get_font"
    /\ Len(tried) < Len(font_candidates)
    /\ LET cand == font_candidates[Len(tried) + 1]
       IN  /\ tried' = Append(tried, cand)
           /\ IF cand \in loads
              THEN font' = cand /\ pc' = "text"
              ELSE font' = "default" /\ pc' = "text"
    /\ UNCHANGED <<height, width, letter, font_size_ratio, letter_img, base_size,
                   loads, text, text_size, pillow>>
    /\ UNCHANGED <<result, error, maskedVars, prepareVars, memeVars>>

\* _get_font, lines 22-26: one turn of the loop over font_candidates
TryFont ==
    /\ pc = "get_font"
    /\ Len(tried) < Len(font_candidates)
    /\ LET cand == font_candidates[Len(tried) + 1]
       IN  /\ tried' = Append(tried, cand)
           /\ IF cand \in loads
              THEN font' = cand /\ pc' = "text"
              ELSE font' = font /\ pc' = pc
    /\ UNCHANGED <<height, width, letter, font_size_ratio, letter_img, base_size,
                   loads, text, text_size, pillow>>
    /\ UNCHANGED <<result, error, maskedVars, prepareVars, memeVars>>

\* _get_font, line 29: every candidate failed
DefaultFont ==
    /\ pc = "get_font"
    /\ Len(tried) = Len(font_candidates)
    /\ font' = "default"
    /\ pc' = "text"
    /\ UNCHANGED <<height, width, letter, font_size_ratio, letter_img, base_size,
                   loads, tried, text, text_size, pillow>>
    /\ UNCHANGED <<result, error, maskedVars, prepareVars, memeVars>>

\* lines 74-82: the glyph is measured, by draw.textbbox or, when ImageDraw
\* has none (AttributeError), by draw.textsize
MeasureText ==
    /\ pc = "text"
    /\ ~TextbboxRejects(pillow, font)
    /\ text' = IF letter # <<>> THEN letter[1] ELSE "S"
    /\ text_size' \in GlyphSizes(base_size)
    /\ pc' = "draw"
    /\ error' = error
    /\ UNCHANGED <<height, width, letter, font_size_ratio, letter_img, base_size,
                   loads, tried, font, pillow>>
    /\ UNCHANGED <<result, maskedVars, prepareVars, memeVars>>

\* lines 74-81: draw.textbbox raises ValueError, which line 81 does not catch
MeasureRaises ==
    /\ pc = "text"
    /\ TextbboxRejects(pillow, font)
    /\ text' = IF letter # <<>> THEN letter[1] ELSE "S"
    /\ pc' = "raised"
    /\ error' = "ValueError"
    /\ UNCHANGED <<height, width, letter, font_size_ratio, letter_img, base_size,
                   loads, tried, font, text_size, pillow>>
    /\ UNCHANGED <<result, maskedVars, prepareVars, memeVars>>

\* lines 85-89
Draw ==
    /\ pc = "draw"
    /\ letter_img' = DrawText(letter_img, text_size[1], text_size[2])
    /\ pc' = "convert"
    /\ UNCHANGED <<height, width, letter, font_size_ratio, base_size, loads, tried,
                   font, text, text_size, pillow>>
    /\ UNCHANGED <<result, error, maskedVars, prepareVars, memeVars>>

\* lines 92-94
Convert ==
    /\ pc = "convert"
    /\ result' = ToUnitArray(letter_img)
    /\ pc' = "returned"
    /\ UNCHANGED <<error, letterVars, maskedVars, prepareVars, memeVars>>

NextLetter ==
    \/ CheckDims \/ Canvas \/ TryFont \/ DefaultFont
    \/ MeasureText \/ MeasureRaises \/ Draw \/ Convert

\* The call runs to its end: nothing in it waits
SpecLetter == InitLetter /\ [][NextLetter]_vars /\ WF_vars(NextLetter)

(* C8: the call raises exactly when height <= 0 or width <= 0; for every
   other height and width, whatever the letter, the ratio and the fonts that
   load, it raises nothing and returns an array of exactly the shape
   (height, width) with every value in [0, 1]. *)
C8_BlockLetterOutcome ==
    /\ pc = "raised" <=> error = "ValueError"
    /\ pc = "raised" => height <= 0 \/ width <= 0
    /\ (height <= 0 \/ width <= 0) => pc \in {"dims", "raised"}
    /\ pc = "returned" =>
        /\ shape(result) = <<height, width>>
        /\ DOMAIN result.px = 1 .. height * width
        /\ \A k \in DOMAIN result.px : 0 <= result.px[k] /\ result.px[k] <= One

\* The candidates before the first one that loads
FirstLoadable == Min({i \in 1 .. Len(font_candidates) : font_candidates[i] \in loads})

(* C9: the candidates are tried in list order; the font returned is the first
   candidate whose load succeeds and no candidate after it is tried; a failed
   load raises nothing and moves on to the next candidate; when every
   candidate fails the default font is returned; and for every pattern of
   loads _get_font ends with a font. *)
C9_FontAcquisition ==
    /\ [](/\ Len(tried) <= Len(font_candidates)
          /\ \A i \in 1 .. Len(tried) : tried[i] = font_candidates[i]
          /\ \A i \in 1 .. Len(tried) - 1 : tried[i] \notin loads
          /\ pc = "get_font" => error = "none" /\ font = "none"
          /\ pc = "get_font" => \A i \in 1 .. Len(tried) : tried[i] \notin loads
          /\ font # "none" =>
                /\ pc = "text" => error = "none"
                /\ IF loads # {}
                   THEN /\ font = font_candidates[FirstLoadable]
                        /\ tried = SubSeq(font_candidates, 1, FirstLoadable)
                   ELSE /\ font = "default"
                        /\ tried = font_candidates)
    /\ (pc = "get_font") ~> (pc = "text" /\ font # "none")

\* The third candidate was returned after two failures, the fourth, which
\* would load too, never tried
C9_Witness ==
    /\ pc = "text"
    /\ loads = {"Arialbd.ttf", "Arial.ttf"}
    /\ tried = <<"DejaVuSans-Bold.ttf", "Arial Bold.ttf", "Arialbd.ttf">>
    /\ font = "Arialbd.ttf"

=============================================================================
